---- MODULE Spec2Model ----
(***************************************************************************)
(* Model of the chess position core: the coordinate system                 *)
(* (lerf_index_for, file_index_of), bitboards, the 8x8 mailbox, the        *)
(* twelve-bitboard Board, MoveType::is_capture and Move::apply.             *)
(*                                                                         *)
(* Representation.                                                         *)
(*   - A char is a one-character string; a &str is a sequence of chars.    *)
(*   - A BitBoard (u64) is the set of its set bit indices 0..63; a u64     *)
(*     literal is written as its eight bytes, most significant first, as   *)
(*     in the hex literal of the source.  XOR is symmetric difference and  *)
(*     1u64 << i is {i}.                                                   *)
(*   - Option<Piece>::None is the record None.                             *)
(*   - A Result is [tag, val, err]: tag "Ok" with val, tag "Err" with the  *)
(*     error type in err, or tag "Panic" when the call unwinds.            *)
(***************************************************************************)
EXTENDS Integers, Sequences, FiniteSets, TLC

VARIABLES
    white,            \* Board.white  : PieceSet
    black,            \* Board.black  : PieceSet
    squares,          \* Board.squares: _8x8Board, squares[rank][file]
    move,             \* the Move of the last Move::apply call (NoMove before any)
    result,           \* outcome of the last Move::apply call
    nmoves,           \* number of Move::apply calls made
    call,             \* the last call of a pure function: [fn, text, mtype, ret]
    overflow_checks   \* build profile: TRUE = arithmetic overflow panics (debug),
                      \* FALSE = it wraps (release)

vars == <<white, black, squares, move, result, nmoves, call, overflow_checks>>

----------------------------------------------------------------------------
(* Bounds of the model *)

\* longest text handed to the pure parsing functions
MaxLen == 3
\* Move::apply calls per run when the moves are arbitrary
MaxCalls == 1
\* Move::apply calls per run when every move obeys the move-generator contract
MaxMoves == 3

----------------------------------------------------------------------------
(* types.rs *)

Side == {"White", "Black"}

PieceType == {"Pawn", "Knight", "Bishop", "Rook", "Queen", "King"}

Piece == [ptype : PieceType, side : Side]

None == [ptype |-> "None", side |-> "None"]

MkPiece(s, t) == [ptype |-> t, side |-> s]

Ok(v) == [tag |-> "Ok", val |-> v, err |-> ""]
Err(e) == [tag |-> "Err", val |-> 0, err |-> e]
Panic == [tag |-> "Panic", val |-> 0, err |-> ""]

\* impl TryFrom<&str> for Piece: the glyph is named by its code point
Piece_try_from(piece) ==
    CASE piece = "U+2659" -> Ok(MkPiece("White", "Pawn"))
      [] piece = "U+2658" -> Ok(MkPiece("White", "Knight"))
      [] piece = "U+2657" -> Ok(MkPiece("White", "Bishop"))
      [] piece = "U+2656" -> Ok(MkPiece("White", "Rook"))
      [] piece = "U+2655" -> Ok(MkPiece("White", "Queen"))
      [] piece = "U+2654" -> Ok(MkPiece("White", "King"))
      [] piece = "U+265F" -> Ok(MkPiece("Black", "Pawn"))
      [] piece = "U+265E" -> Ok(MkPiece("Black", "Knight"))
      [] piece = "U+265D" -> Ok(MkPiece("Black", "Bishop"))
      [] piece = "U+265C" -> Ok(MkPiece("Black", "Rook"))
      [] piece = "U+265B" -> Ok(MkPiece("Black", "Queen"))
      [] piece = "U+265A" -> Ok(MkPiece("Black", "King"))
      [] OTHER -> [tag |-> "Err", val |-> None, err |-> "InvalidPieceError"]

----------------------------------------------------------------------------
(* chars and the two regular expressions of lerf_index_for *)

LowerLetters ==
    <<"a", "b", "c", "d", "e", "f", "g", "h", "i", "j", "k", "l", "m",
      "n", "o", "p", "q", "r", "s", "t", "u", "v", "w", "x", "y", "z">>

UpperLetters ==
    <<"A", "B", "C", "D", "E", "F", "G", "H", "I", "J", "K", "L", "M",
      "N", "O", "P", "Q", "R", "S", "T", "U", "V", "W", "X", "Y", "Z">>

DecimalDigits == <<"0", "1", "2", "3", "4", "5", "6", "7", "8", "9">>

\* 1-based position of c in seq, 0 when absent
IndexOf(seq, c) ==
    IF \E i \in 1..Len(seq) : seq[i] = c
    THEN CHOOSE i \in 1..Len(seq) : seq[i] = c
    ELSE 0

\* the lower-case letter of the upper-case letter at position i, c when i = 0
LowerAt(i, c) == IF i > 0 THEN LowerLetters[i] ELSE c

to_ascii_lowercase(c) == LowerAt(IndexOf(UpperLetters, c), c)

\* the digit d when it is one of the radix, -1 for Option::None
DigitBelow(d, radix) == IF d >= 0 /\ d < radix THEN d ELSE -1

\* char::to_digit(radix): the digit value of c, or -1 for Option::None
to_digit(c, radix) ==
    DigitBelow(IndexOf(DecimalDigits \o LowerLetters, to_ascii_lowercase(c)) - 1, radix)

\* the class [a-h]
FileClass == {LowerLetters[i] : i \in 1..8}

\* the class [a-h] under (?i)
FileClassNoCase == FileClass \cup {UpperLetters[i] : i \in 1..8}

\* the class [1-8]
RankClass == {DecimalDigits[i] : i \in 2..9}

\* Regex::new(r"(?i)[a-h][1-8]").is_match(square): an unanchored search
filtre_is_match(square) ==
    \E i \in 1..(Len(square) - 1) :
        square[i] \in FileClassNoCase /\ square[i + 1] \in RankClass

\* starts of the matches of r"(?P<file>[a-h])(?P<rank>[1-8])" in square
sqre_matches(square) ==
    {i \in 1..(Len(square) - 1) :
        square[i] \in FileClass /\ square[i + 1] \in RankClass}

\* the least element of a set of positions, 0 when it is empty
Leftmost(S) == IF S = {} THEN 0 ELSE CHOOSE i \in S : \A j \in S : i <= j

\* Regex::captures: the leftmost match (its start), or 0 for Option::None
sqre_captures(square) == Leftmost(sqre_matches(square))

----------------------------------------------------------------------------
(* board.rs: the coordinate system *)

\* file_index_of, from `let index = chrindex.unwrap() - 'a'.to_digit(18).unwrap()`
\* on.  The u32 subtraction panics on overflow when overflow checks are on
\* and wraps modulo 2^32 otherwise; `as u8` then keeps the low 8 bits, and
\* since 2^8 divides 2^32 the low byte of the wrapped value is
\* (chrindex - a) % 2^8.
file_index_from(chrindex, a, checks) ==
    IF chrindex - a < 0 /\ checks THEN Panic
    ELSE IF (chrindex - a) % 256 < 8 THEN Ok((chrindex - a) % 256)
    ELSE Err("InvalidFileError")

\* file_index_of, after `let chrindex = file.to_digit(18)`
file_index_of_digit(chrindex, checks) ==
    IF chrindex = -1 THEN Err("InvalidFileError")
    ELSE file_index_from(chrindex, to_digit("a", 18), checks)

\* file_index_of(file)
file_index_of(file, checks) == file_index_of_digit(to_digit(file, 18), checks)

\* file_for_index(index), index a u8
file_for_index(index) ==
    IF index > 7 THEN [tag |-> "Err", val |-> "", err |-> "InvalidFileError"]
    ELSE [tag |-> "Ok", val |-> LowerLetters[index + 1], err |-> ""]

\* lerf_index_for, its last line: file_index_of(file_chr).unwrap() and
\* Ok(rank_index * 8 + file_index)
lerf_index_of(file, rank_index) ==
    IF file.tag # "Ok" THEN Panic ELSE Ok(rank_index * 8 + file.val)

\* lerf_index_for, after `sqre.captures(square)`: `at` is where the match
\* starts, 0 when there is none and unwrap() panics; rank_index is
\* u8::from_str(rank_str).unwrap() - 1
lerf_index_at(square, at, checks) ==
    IF at = 0 THEN Panic
    ELSE lerf_index_of(file_index_of(square[at], checks),
                       (IndexOf(DecimalDigits, square[at + 1]) - 1) - 1)

\* lerf_index_for(square)
lerf_index_for(square, checks) ==
    IF ~filtre_is_match(square) THEN Err("InvalidSquareError")
    ELSE lerf_index_at(square, sqre_captures(square), checks)

----------------------------------------------------------------------------
(* board.rs: BitBoard *)

WHITE_PAWN_START_POS   == <<\H00, \H00, \H00, \H00, \H00, \H00, \Hff, \H00>>
WHITE_KNIGHT_START_POS == <<\H00, \H00, \H00, \H00, \H00, \H00, \H00, \H42>>
WHITE_BISHOP_START_POS == <<\H00, \H00, \H00, \H00, \H00, \H00, \H00, \H24>>
WHITE_ROOK_START_POS   == <<\H00, \H00, \H00, \H00, \H00, \H00, \H00, \H81>>
WHITE_QUEEN_START_POS  == <<\H00, \H00, \H00, \H00, \H00, \H00, \H00, \H10>>
WHITE_KING_START_POS   == <<\H00, \H00, \H00, \H00, \H00, \H00, \H00, \H08>>
BLACK_PAWN_START_POS   == <<\H00, \Hff, \H00, \H00, \H00, \H00, \H00, \H00>>
BLACK_KNIGHT_START_POS == <<\H42, \H00, \H00, \H00, \H00, \H00, \H00, \H00>>
BLACK_BISHOP_START_POS == <<\H24, \H00, \H00, \H00, \H00, \H00, \H00, \H00>>
BLACK_ROOK_START_POS   == <<\H81, \H00, \H00, \H00, \H00, \H00, \H00, \H00>>
BLACK_QUEEN_START_POS  == <<\H10, \H00, \H00, \H00, \H00, \H00, \H00, \H00>>
BLACK_KING_START_POS   == <<\H08, \H00, \H00, \H00, \H00, \H00, \H00, \H00>>

\* BitBoard(u64): the set bits of the u64 whose bytes, most significant
\* first, are `bytes`; bit i lies in byte 8 - i \div 8, at position i % 8
BitBoard(bytes) ==
    {i \in 0..63 : (bytes[8 - (i \div 8)] \div (2 ^ (i % 8))) % 2 = 1}

\* impl From<&str> for BitBoard: BitBoard(1u64 << lerf_index_for(square).unwrap())
BitBoard_shl(bit_index) ==
    IF bit_index.tag = "Ok"
    THEN [tag |-> "Ok", val |-> {bit_index.val}]
    ELSE [tag |-> "Panic", val |-> {}]

BitBoard_from(square, checks) == BitBoard_shl(lerf_index_for(square, checks))

\* impl BitXor for BitBoard
bitxor(lhs, rhs) == (lhs \ rhs) \cup (rhs \ lhs)

----------------------------------------------------------------------------
(* board.rs: _8x8Board *)

\* _8x8Board::empty()
_8x8Board_empty == [r \in 0..7 |-> [f \in 0..7 |-> None]]

\* impl TryFrom<[[&str; 8]; 8]> for _8x8Board: row rank_index of the input
\* goes to new_board.0[7 - rank_index]; a glyph that does not parse fails
\* the whole conversion
_8x8Board_try_from(board) ==
    IF \E r \in 1..8, f \in 1..8 :
          board[r][f] # "" /\ Piece_try_from(board[r][f]).tag # "Ok"
    THEN [tag |-> "Err", val |-> _8x8Board_empty, err |-> "InvalidPieceError"]
    ELSE [tag |-> "Ok", err |-> "",
          val |-> [r \in 0..7 |-> [f \in 0..7 |->
                     LET piece == board[(7 - r) + 1][f + 1]
                     IN  IF piece = "" THEN None ELSE Piece_try_from(piece).val]]]

\* _8x8Board::new()
_8x8Board_new ==
    _8x8Board_try_from(<<
        <<"U+265C", "U+265E", "U+265D", "U+265B", "U+265A", "U+265D", "U+265E", "U+265C">>,
        <<"U+265F", "U+265F", "U+265F", "U+265F", "U+265F", "U+265F", "U+265F", "U+265F">>,
        <<"", "", "", "", "", "", "", "">>,
        <<"", "", "", "", "", "", "", "">>,
        <<"", "", "", "", "", "", "", "">>,
        <<"", "", "", "", "", "", "", "">>,
        <<"U+2659", "U+2659", "U+2659", "U+2659", "U+2659", "U+2659", "U+2659", "U+2659">>,
        <<"U+2656", "U+2658", "U+2657", "U+2655", "U+2654", "U+2657", "U+2658", "U+2656">>
    >>).val

\* _8x8Board::set_square(square, value): the new board under "Ok"
_8x8Board_set_at(sq, bit_index, value) ==
    IF bit_index.tag = "Ok"
    THEN [tag |-> "Ok", err |-> "",
          val |-> [sq EXCEPT ![bit_index.val \div 8][bit_index.val % 8] = value]]
    ELSE [tag |-> bit_index.tag, err |-> bit_index.err, val |-> sq]

_8x8Board_set_square(sq, square, value, checks) ==
    _8x8Board_set_at(sq, lerf_index_for(square, checks), value)

\* _8x8Board::get_square(square): lerf_index_for(square).unwrap()
_8x8Board_get_at(sq, bit_index) ==
    IF bit_index.tag = "Ok"
    THEN [tag |-> "Ok", val |-> sq[bit_index.val \div 8][bit_index.val % 8]]
    ELSE [tag |-> "Panic", val |-> None]

_8x8Board_get_square(sq, square, checks) ==
    _8x8Board_get_at(sq, lerf_index_for(square, checks))

----------------------------------------------------------------------------
(* board.rs: PieceSet and Board *)

\* PieceSet::new(side)
PieceSet_new(side) ==
    IF side = "White"
    THEN [pawns   |-> BitBoard(WHITE_PAWN_START_POS),
          knights |-> BitBoard(WHITE_KNIGHT_START_POS),
          bishops |-> BitBoard(WHITE_BISHOP_START_POS),
          rooks   |-> BitBoard(WHITE_ROOK_START_POS),
          queens  |-> BitBoard(WHITE_QUEEN_START_POS),
          king    |-> BitBoard(WHITE_KING_START_POS)]
    ELSE [pawns   |-> BitBoard(BLACK_PAWN_START_POS),
          knights |-> BitBoard(BLACK_KNIGHT_START_POS),
          bishops |-> BitBoard(BLACK_BISHOP_START_POS),
          rooks   |-> BitBoard(BLACK_ROOK_START_POS),
          queens  |-> BitBoard(BLACK_QUEEN_START_POS),
          king    |-> BitBoard(BLACK_KING_START_POS)]

\* PieceSet::bit_board_for(piece)
PieceSet_bit_board_for(set, ptype) ==
    CASE ptype = "Pawn"   -> set.pawns
      [] ptype = "Knight" -> set.knights
      [] ptype = "Bishop" -> set.bishops
      [] ptype = "Rook"   -> set.rooks
      [] ptype = "Queen"  -> set.queens
      [] ptype = "King"   -> set.king

\* PieceSet::set_bit_board(bit_board, piece)
PieceSet_set_bit_board(set, bit_board, ptype) ==
    CASE ptype = "Pawn"   -> [set EXCEPT !.pawns   = bit_board]
      [] ptype = "Knight" -> [set EXCEPT !.knights = bit_board]
      [] ptype = "Bishop" -> [set EXCEPT !.bishops = bit_board]
      [] ptype = "Rook"   -> [set EXCEPT !.rooks   = bit_board]
      [] ptype = "Queen"  -> [set EXCEPT !.queens  = bit_board]
      [] ptype = "King"   -> [set EXCEPT !.king    = bit_board]

\* Board::new(), as the record [white, black, squares]
Board_new ==
    [white   |-> PieceSet_new("White"),
     black   |-> PieceSet_new("Black"),
     squares |-> _8x8Board_new]

\* Board::bit_board_for(piece)
Board_bit_board_for(board, piece) ==
    IF piece.side = "White"
    THEN PieceSet_bit_board_for(board.white, piece.ptype)
    ELSE PieceSet_bit_board_for(board.black, piece.ptype)

\* Board::set_bit_board(bit_board, piece)
Board_set_bit_board(board, bit_board, piece) ==
    IF piece.side = "White"
    THEN [board EXCEPT !.white = PieceSet_set_bit_board(board.white, bit_board, piece.ptype)]
    ELSE [board EXCEPT !.black = PieceSet_set_bit_board(board.black, bit_board, piece.ptype)]

\* Board::get_square(square)
Board_get_square(board, square, checks) ==
    _8x8Board_get_square(board.squares, square, checks)

\* Board::set_square(square, piece): the new Board under "Ok"
Board_with_squares(board, r) ==
    [tag |-> r.tag, err |-> r.err, val |-> [board EXCEPT !.squares = r.val]]

Board_set_square(board, square, piece, checks) ==
    Board_with_squares(board, _8x8Board_set_square(board.squares, square, piece, checks))

----------------------------------------------------------------------------
(* movegen.rs: MoveType *)

CAPTURE_FLAG == 4

\* enum MoveType: the discriminant (`as u8`) of each variant; a variant
\* without `= n` takes its predecessor's discriminant plus one
MoveTypeTag ==
    [Quiet                |-> 0,
     DoublePawnPush       |-> 1,
     KingsideCastle       |-> 2,
     QueensideCastle      |-> 3,
     Capture              |-> 4,
     EnPassant            |-> 5,
     KnightPromote        |-> 8,
     BishopPromote        |-> 9,
     RookPromote          |-> 10,
     QueenPromote         |-> 11,
     KnightPromoteCapture |-> 12,
     BishopPromoteCapture |-> 13,
     RookPromoteCapture   |-> 14,
     QueenPromoteCapture  |-> 15]

MoveType == DOMAIN MoveTypeTag

\* a & b on unsigned integers
RECURSIVE BitAnd(_, _)
BitAnd(a, b) ==
    IF a = 0 \/ b = 0 THEN 0
    ELSE (a % 2) * (b % 2) + 2 * BitAnd(a \div 2, b \div 2)

\* a plausible slip: the flag compared instead of masked
is_capture_compared(move_type) == MoveTypeTag[move_type] >= CAPTURE_FLAG

\* MoveType::is_capture(): *self as u8 & CAPTURE_FLAG != 0
is_capture(move_type) == BitAnd(MoveTypeTag[move_type], CAPTURE_FLAG) # 0

----------------------------------------------------------------------------
(* movegen.rs: Move *)

NoMove == [piece |-> None, origin |-> <<>>, target |-> <<>>, move_type |-> "None"]

\* what a call returned for a Result that is not Ok: "Panic", or the error
\* type of the Err
Failure(r) == IF r.tag = "Panic" THEN "Panic" ELSE r.err

\* Move::apply, the Quiet arm after its first set_square: `?` returns
\* s1's Err; then board.set_square(target, Some(piece))? and Ok(())
Move_apply_target(s1, s2) ==
    IF s1.tag # "Ok" THEN [board |-> s1.val, result |-> Failure(s1)]
    ELSE IF s2.tag # "Ok" THEN [board |-> s2.val, result |-> Failure(s2)]
    ELSE [board |-> s2.val, result |-> "Ok"]

\* Move::apply, the Quiet arm after set_bit_board (b1 is the Board then):
\* board.set_square(origin, None)?
Move_apply_origin(m, b1, s1, checks) ==
    Move_apply_target(s1, Board_set_square(s1.val, m.target, m.piece, checks))

\* Move::apply, the Quiet arm with the Board b1 that set_bit_board leaves
Move_apply_set(m, b1, checks) ==
    Move_apply_origin(m, b1, Board_set_square(b1, m.origin, None, checks), checks)

\* Move::apply, the Quiet arm after the two BitBoard::from calls, which
\* come before the first write: move_bb and board.set_bit_board
Move_apply_quiet(m, board, piece_bb, from_o, from_t, checks) ==
    IF from_o.tag = "Panic" \/ from_t.tag = "Panic"
    THEN [board |-> board, result |-> "Panic"]
    ELSE Move_apply_set(m,
            Board_set_bit_board(board,
                bitxor(piece_bb, bitxor(from_o.val, from_t.val)), m.piece),
            checks)

\* Move::apply(board): the Board after the call and what the call returned
\* ("Ok", the error type of an Err, or "Panic")
Move_apply(m, board, checks) ==
    IF m.move_type \in {"Quiet", "DoublePawnPush"}
    THEN Move_apply_quiet(m, board, Board_bit_board_for(board, m.piece),
                          BitBoard_from(m.origin, checks),
                          BitBoard_from(m.target, checks), checks)
    ELSE [board |-> board, result |-> "Ok"]     \* KingsideCastle => {}, _ => ()

----------------------------------------------------------------------------
(* Inputs *)

\* a text of SquareTexts, from its characters
b1  == <<"b", "1">>
c3  == <<"c", "3">>
c5  == <<"c", "5">>
c7  == <<"c", "7">>
e1  == <<"e", "1">>
e2  == <<"e", "2">>
c1  == <<"c", "1">>
g1  == <<"g", "1">>

\* the origin and target texts of the moves: squares of the starting
\* position that are occupied (b1, c1, c7, e1, e2, g1) and empty (c3, c5),
\* two upper-case squares, a square with a character before it, and a text
\* that holds no square
SquareTexts ==
    {b1, c1, c3, c5, c7, e1, e2, g1,
     <<"B", "1">>, <<"C", "3">>, <<"x", "b", "1">>, <<"z", "9">>}

Moves == [piece : Piece, origin : SquareTexts, target : SquareTexts, move_type : MoveType]

\* the characters of the texts handed to the pure functions
Alphabet == {"a", "c", "h", "i", "A", "H", "0", "1", "8", "9"}

Texts == UNION {[1..n -> Alphabet] : n \in 0..MaxLen}

\* the characters handed to file_index_of: the letters of both cases, the
\* decimal digits and a space
FileChars ==
    {LowerLetters[i] : i \in 1..26} \cup {UpperLetters[i] : i \in 1..26}
        \cup {DecimalDigits[i] : i \in 1..10} \cup {" "}

\* the texts handed to Piece::try_from: the twelve glyphs, named by code
\* point, the empty text and texts that are no glyph
PieceTexts ==
    {"U+2659", "U+2658", "U+2657", "U+2656", "U+2655", "U+2654",
     "U+265F", "U+265E", "U+265D", "U+265C", "U+265B", "U+265A",
     "", "P", "U+2653", "bad input"}

\* the values handed to set_square
SquareValues == {None, MkPiece("White", "Pawn"), MkPiece("Black", "King")}

\* the bitboards handed to set_bit_board: the empty mask, one square (c3),
\* a starting mask and the full board
BitBoardValues ==
    {{}, {18}, BitBoard(WHITE_PAWN_START_POS),
     BitBoard(<<\Hff, \Hff, \Hff, \Hff, \Hff, \Hff, \Hff, \Hff>>)}

\* arg is the argument that is neither a square text nor a MoveType
NoCall == [fn |-> "none", text |-> <<>>, mtype |-> "None", arg |-> 0, ret |-> Ok(0)]

----------------------------------------------------------------------------
(* The state machine *)

TheBoard == [white |-> white, black |-> black, squares |-> squares]

\* Board::new(), no call made yet, under either build profile
Init ==
    /\ white = Board_new.white
    /\ black = Board_new.black
    /\ squares = Board_new.squares
    /\ move = NoMove
    /\ result = "None"
    /\ nmoves = 0
    /\ call = NoCall
    /\ overflow_checks \in BOOLEAN

\* the caller's Board and the returned value after a call
Returned(r) ==
    /\ white' = r.board.white
    /\ black' = r.board.black
    /\ squares' = r.board.squares
    /\ result' = r.result

\* m.apply(&mut board); a panic unwinds the caller, and nothing follows it
Apply(m) ==
    /\ result # "Panic"
    /\ Returned(Move_apply(m, TheBoard, overflow_checks))
    /\ move' = m
    /\ nmoves' = nmoves + 1
    /\ UNCHANGED <<call, overflow_checks>>

\* any Move at all
ApplyAny ==
    /\ nmoves < MaxCalls
    /\ \E m \in Moves : Apply(m)

\* the move-generator contract of a Quiet or DoublePawnPush move, read
\* through get_square: the origin holds the stated piece (`holder` is
\* get_square(origin)), the target is empty
GeneratorContract(m, holder) ==
    /\ m.move_type \in {"Quiet", "DoublePawnPush"}
    /\ holder = [tag |-> "Ok", val |-> m.piece]
    /\ m.piece \in Piece
    /\ Board_get_square(TheBoard, m.target, overflow_checks) = [tag |-> "Ok", val |-> None]

\* the Move of a move generator that keeps its contract
Generated(origin, target, move_type, holder) ==
    /\ GeneratorContract(
          [piece |-> holder.val, origin |-> origin, target |-> target,
           move_type |-> move_type], holder)
    /\ Apply([piece |-> holder.val, origin |-> origin, target |-> target,
              move_type |-> move_type])

ApplyGenerated ==
    /\ nmoves < MaxMoves
    /\ \E origin \in SquareTexts, target \in SquareTexts,
          move_type \in {"Quiet", "DoublePawnPush"} :
          Generated(origin, target, move_type,
                    Board_get_square(TheBoard, origin, overflow_checks))

\* lerf_index_for(text)
Call_lerf_index_for ==
    /\ call = NoCall
    /\ \E text \in Texts :
          call' = [fn |-> "lerf_index_for", text |-> text, mtype |-> "None",
                   arg |-> 0, ret |-> lerf_index_for(text, overflow_checks)]
    /\ UNCHANGED <<white, black, squares, move, result, nmoves, overflow_checks>>

\* move_type.is_capture()
Call_is_capture ==
    /\ call = NoCall
    /\ \E move_type \in MoveType :
          call' = [fn |-> "is_capture", text |-> <<>>, mtype |-> move_type,
                   arg |-> 0, ret |-> Ok(is_capture(move_type))]
    /\ UNCHANGED <<white, black, squares, move, result, nmoves, overflow_checks>>

\* file_index_of(file)
Call_file_index_of ==
    /\ call = NoCall
    /\ \E file \in FileChars :
          call' = [fn |-> "file_index_of", text |-> <<file>>, mtype |-> "None",
                   arg |-> 0, ret |-> file_index_of(file, overflow_checks)]
    /\ UNCHANGED <<white, black, squares, move, result, nmoves, overflow_checks>>

\* file_for_index(index), index any u8
Call_file_for_index ==
    /\ call = NoCall
    /\ \E index \in 0..255 :
          call' = [fn |-> "file_for_index", text |-> <<>>, mtype |-> "None",
                   arg |-> index, ret |-> file_for_index(index)]
    /\ UNCHANGED <<white, black, squares, move, result, nmoves, overflow_checks>>

\* BitBoard::from(square)
Call_BitBoard_from ==
    /\ call = NoCall
    /\ \E square \in Texts :
          call' = [fn |-> "BitBoard_from", text |-> square, mtype |-> "None",
                   arg |-> 0, ret |-> BitBoard_from(square, overflow_checks)]
    /\ UNCHANGED <<white, black, squares, move, result, nmoves, overflow_checks>>

\* Board::get_square(square)
Call_get_square ==
    /\ call = NoCall
    /\ \E square \in Texts :
          call' = [fn |-> "get_square", text |-> square, mtype |-> "None",
                   arg |-> 0, ret |-> Board_get_square(TheBoard, square, overflow_checks)]
    /\ UNCHANGED <<white, black, squares, move, result, nmoves, overflow_checks>>

\* Board::set_square(square, piece): the mailbox is written under Ok(())
\* only; ret is the Result<(), InvalidSquareError>, or the panic
Set_square_returned(square, piece, r) ==
    /\ call' = [fn |-> "set_square", text |-> square, mtype |-> "None",
                arg |-> piece, ret |-> [tag |-> r.tag, val |-> 0, err |-> r.err]]
    /\ squares' = r.val.squares

Call_set_square ==
    /\ call = NoCall
    /\ \E square \in Texts, piece \in SquareValues :
          Set_square_returned(square, piece,
                              Board_set_square(TheBoard, square, piece, overflow_checks))
    /\ UNCHANGED <<white, black, move, result, nmoves, overflow_checks>>

\* Piece::try_from(piece)
Call_Piece_try_from ==
    /\ call = NoCall
    /\ \E piece \in PieceTexts :
          call' = [fn |-> "Piece_try_from", text |-> <<piece>>, mtype |-> "None",
                   arg |-> 0, ret |-> Piece_try_from(piece)]
    /\ UNCHANGED <<white, black, squares, move, result, nmoves, overflow_checks>>

\* Board::set_bit_board(bit_board, piece): writes the one bitboard of the
\* piece's side and type; the mailbox is not touched and nothing is returned
Set_bit_board_done(bit_board, piece, board) ==
    /\ call' = [fn |-> "set_bit_board", text |-> <<>>, mtype |-> "None",
                arg |-> [bit_board |-> bit_board, piece |-> piece], ret |-> Ok(0)]
    /\ white' = board.white
    /\ black' = board.black

Call_set_bit_board ==
    /\ call = NoCall
    /\ \E bit_board \in BitBoardValues, piece \in Piece :
          Set_bit_board_done(bit_board, piece,
                             Board_set_bit_board(TheBoard, bit_board, piece))
    /\ UNCHANGED <<squares, move, result, nmoves, overflow_checks>>

Next == ApplyAny

Spec == Init /\ [][Next]_vars

NextContract == ApplyGenerated

SpecContract == Init /\ [][NextContract]_vars

NextPure ==
    \/ Call_lerf_index_for
    \/ Call_is_capture
    \/ Call_file_index_of
    \/ Call_file_for_index
    \/ Call_BitBoard_from
    \/ Call_get_square
    \/ Call_set_square
    \/ Call_Piece_try_from
    \/ Call_set_bit_board

SpecPure == Init /\ [][NextPure]_vars

----------------------------------------------------------------------------
(* The vocabulary of the claims: squares as the specification defines them *)

\* text is exactly one letter a-h, in either case, followed by one digit 1-8
ValidSquareText(text) ==
    /\ Len(text) = 2
    /\ text[1] \in FileClassNoCase
    /\ text[2] \in RankClass

\* rank_index * 8 + file_index of a valid square text, with
\* file_index = letter - 'a' and rank_index = digit - 1
SquareIndex(text) ==
    (IndexOf(DecimalDigits, text[2]) - 2) * 8
        + (IndexOf(LowerLetters, to_ascii_lowercase(text[1])) - 1)

\* the square of file letter number f (a = 1) on rank r
Sq(f, r) == (r - 1) * 8 + (f - 1)

\* the twelve bitboards of a Board
BitBoards(board) == [p \in Piece |-> Board_bit_board_for(board, p)]

\* the pieces whose bitboard has bit i set
Holders(board, i) == {p \in Piece : i \in Board_bit_board_for(board, p)}

\* the mailbox slot of square index i
Slot(board, i) == board.squares[i \div 8][i % 8]

\* the mailbox entry of square index i as get_square returns it
GetSquare(i) ==
    Board_get_square(TheBoard,
        <<LowerLetters[(i % 8) + 1], DecimalDigits[(i \div 8) + 2]>>,
        overflow_checks).val

\* square i holds piece p, in the mailbox and in p's bitboard
Holds(board, i, p) == Slot(board, i) = p /\ i \in Board_bit_board_for(board, p)

Opposing(p, q) == p \in Piece /\ q \in Piece /\ p.side # q.side

PromotedType ==
    [KnightPromote |-> "Knight", BishopPromote |-> "Bishop",
     RookPromote |-> "Rook", QueenPromote |-> "Queen",
     KnightPromoteCapture |-> "Knight", BishopPromoteCapture |-> "Bishop",
     RookPromoteCapture |-> "Rook", QueenPromoteCapture |-> "Queen"]

PromoteCaptures ==
    {"KnightPromoteCapture", "BishopPromoteCapture", "RookPromoteCapture",
     "QueenPromoteCapture"}

\* the bitboards after the piece `mover` has gone from square o to square t
\* and ended there as the piece `arrived`, a piece on t having been taken
MovedBitBoards(board, mover, arrived, o, t) ==
    [p \in Piece |->
        IF p = arrived THEN (Board_bit_board_for(board, p) \ {o}) \cup {t}
        ELSE IF p = mover THEN Board_bit_board_for(board, p) \ {o}
        ELSE Board_bit_board_for(board, p) \ {t}]

\* the mailbox after the same move
MovedSlots(board, arrived, o, t) ==
    [i \in 0..63 |-> IF i = t THEN arrived ELSE IF i = o THEN None ELSE Slot(board, i)]

Slots(board) == [i \in 0..63 |-> Slot(board, i)]

----------------------------------------------------------------------------
(* The claims *)

\* C1: in Board::new() and after any sequence of successful applies of
\* moves that keep the move-generator contract, for every square index the
\* mailbox entry (get_square) is present iff exactly one of the twelve
\* bitboards has that bit set, and it names that bitboard's side and type.
\* Refuted by the code: Board::new() itself breaks it on d1, e1, d8, e8.
MailboxSynchronized ==
    result \in {"None", "Ok"} =>
        \A i \in 0..63 :
            /\ GetSquare(i) # None <=> Cardinality(Holders(TheBoard, i)) = 1
            /\ GetSquare(i) # None => Holders(TheBoard, i) = {GetSquare(i)}

\* C2: in Board::new() and after any sequence of successful Quiet and
\* DoublePawnPush applies whose origin holds the stated piece and whose
\* target is empty according to get_square, no square index has its bit set
\* in more than one of the twelve bitboards.
\* Refuted by the code: the king of the mailbox's e1 is toggled on a bit
\* the queen bitboard holds.
PiecesNeverOverlap ==
    result \in {"None", "Ok"} =>
        \A i \in 0..63 : Cardinality(Holders(TheBoard, i)) <= 1

\* C3: applying a Quiet or DoublePawnPush move whose origin and target are
\* valid texts of two different squares, the origin holding the moving
\* piece and the target empty, returns Ok; the moving piece's
\* bitboard becomes its previous value XOR (mask(origin) XOR mask(target)),
\* the other eleven bitboards are unchanged, the mailbox at origin is empty,
\* at target holds the moved piece, and every other slot is unchanged.
\* Refuted by the code: an upper-case square text makes apply panic.
QuietMoveEffect ==
    [][(/\ move'.move_type \in {"Quiet", "DoublePawnPush"}
        /\ ValidSquareText(move'.origin)
        /\ ValidSquareText(move'.target)
        /\ SquareIndex(move'.origin) # SquareIndex(move'.target)
        /\ Holds(TheBoard, SquareIndex(move'.origin), move'.piece)
        /\ Slot(TheBoard, SquareIndex(move'.target)) = None
        /\ Holders(TheBoard, SquareIndex(move'.target)) = {})
       => /\ result' = "Ok"
          /\ BitBoards(TheBoard') =
                [BitBoards(TheBoard) EXCEPT ![move'.piece] =
                    bitxor(@, bitxor({SquareIndex(move'.origin)},
                                     {SquareIndex(move'.target)}))]
          /\ Slots(TheBoard') =
                [Slots(TheBoard) EXCEPT
                    ![SquareIndex(move'.origin)] = None,
                    ![SquareIndex(move'.target)] = move'.piece]]_vars

\* C3, the part the code keeps: the same effect whenever the two texts are
\* lower-case valid squares, different from each other.
QuietMoveEffectLowerCase ==
    [][(/\ move'.move_type \in {"Quiet", "DoublePawnPush"}
        /\ ValidSquareText(move'.origin) /\ move'.origin[1] \in FileClass
        /\ ValidSquareText(move'.target) /\ move'.target[1] \in FileClass
        /\ SquareIndex(move'.origin) # SquareIndex(move'.target))
       => /\ result' = "Ok"
          /\ BitBoards(TheBoard') =
                [BitBoards(TheBoard) EXCEPT ![move'.piece] =
                    bitxor(@, bitxor({SquareIndex(move'.origin)},
                                     {SquareIndex(move'.target)}))]
          /\ Slots(TheBoard') =
                [Slots(TheBoard) EXCEPT
                    ![SquareIndex(move'.origin)] = None,
                    ![SquareIndex(move'.target)] = move'.piece]]_vars

\* C4: for a move of any category whose origin or target text fails the
\* coordinate validation, apply returns an InvalidSquareError as a value
\* and leaves all twelve bitboards and all 64 mailbox slots as they were.
\* Refuted by the code: a Quiet move panics or, when the text holds a
\* square somewhere, moves a piece; the other categories return Ok.
InvalidSquareRejected ==
    [][(~ValidSquareText(move'.origin) \/ ~ValidSquareText(move'.target))
       => /\ result' = "InvalidSquareError"
          /\ TheBoard' = TheBoard]_vars

\* C5: applying a Capture move whose origin holds the moving piece and
\* whose target holds an opposing piece moves the mover's bit from origin
\* to target, clears the target bit from the opposing bitboard that held
\* it, empties the mailbox at origin and puts the mover at target.
\* Refuted by the code: apply does nothing for Capture.
CaptureEffect ==
    [][(/\ move'.move_type = "Capture"
        /\ ValidSquareText(move'.origin) /\ ValidSquareText(move'.target)
        /\ Holds(TheBoard, SquareIndex(move'.origin), move'.piece)
        /\ \E q \in Piece : /\ Opposing(move'.piece, q)
                            /\ Holds(TheBoard, SquareIndex(move'.target), q))
       => /\ BitBoards(TheBoard') =
                MovedBitBoards(TheBoard, move'.piece, move'.piece,
                               SquareIndex(move'.origin), SquareIndex(move'.target))
          /\ Slots(TheBoard') =
                MovedSlots(TheBoard, move'.piece,
                           SquareIndex(move'.origin), SquareIndex(move'.target))]_vars

\* C6: applying a KingsideCastle (QueensideCastle) move of the white king
\* from its home square e1 to its castled square g1 (c1) moves the king's
\* bit and mailbox entry from e1 to g1 (c1) and, in the same call, the
\* rook's bit and mailbox entry from h1 to f1 (a1 to d1).
\* Refuted by the code: apply does nothing for the castle categories.
CastleEffect ==
    [][(/\ move'.move_type \in {"KingsideCastle", "QueensideCastle"}
        /\ move'.piece = MkPiece("White", "King")
        /\ move'.origin = e1
        /\ move'.target = IF move'.move_type = "KingsideCastle" THEN g1 ELSE c1)
       => LET kingside == move'.move_type = "KingsideCastle"
              king_to  == IF kingside THEN Sq(7, 1) ELSE Sq(3, 1)
              rook_at  == IF kingside THEN Sq(8, 1) ELSE Sq(1, 1)
              rook_to  == IF kingside THEN Sq(6, 1) ELSE Sq(4, 1)
          IN  /\ Sq(5, 1) \notin white'.king
              /\ king_to \in white'.king
              /\ Slot(TheBoard', Sq(5, 1)) # MkPiece("White", "King")
              /\ Slot(TheBoard', king_to) = MkPiece("White", "King")
              /\ rook_at \notin white'.rooks
              /\ rook_to \in white'.rooks
              /\ Slot(TheBoard', rook_at) # MkPiece("White", "Rook")
              /\ Slot(TheBoard', rook_to) = MkPiece("White", "Rook")]_vars

\* C7: applying a promotion move (plain or capturing) whose origin holds
\* the mover's pawn, and whose target holds an opposing piece when the move
\* captures and is empty otherwise, clears the origin bit from the mover's
\* pawn bitboard, sets the target bit in the mover's bitboard of the
\* promoted-to type, puts the promoted piece in the mailbox at target,
\* empties the mailbox at origin and, when capturing, clears the target bit
\* from the opposing bitboard that held it.
\* Refuted by the code: apply does nothing for the promotion categories.
PromotionEffect ==
    [][(/\ move'.move_type \in DOMAIN PromotedType
        /\ move'.piece \in Piece /\ move'.piece.ptype = "Pawn"
        /\ ValidSquareText(move'.origin) /\ ValidSquareText(move'.target)
        /\ Holds(TheBoard, SquareIndex(move'.origin), move'.piece)
        /\ IF move'.move_type \in PromoteCaptures
           THEN \E q \in Piece : /\ Opposing(move'.piece, q)
                                 /\ Holds(TheBoard, SquareIndex(move'.target), q)
           ELSE /\ Slot(TheBoard, SquareIndex(move'.target)) = None
                /\ Holders(TheBoard, SquareIndex(move'.target)) = {})
       => /\ BitBoards(TheBoard') =
                MovedBitBoards(TheBoard, move'.piece,
                    MkPiece(move'.piece.side, PromotedType[move'.move_type]),
                    SquareIndex(move'.origin), SquareIndex(move'.target))
          /\ Slots(TheBoard') =
                MovedSlots(TheBoard,
                    MkPiece(move'.piece.side, PromotedType[move'.move_type]),
                    SquareIndex(move'.origin), SquareIndex(move'.target))]_vars

\* C8: Board::new() has the standard arrangement in its twelve bitboards:
\* white pawns a2..h2, knights b1/g1, bishops c1/f1, rooks a1/h1, queen d1,
\* king e1, the mirror for black on ranks 7 and 8 (the black king exactly
\* e8); 32 bits are set in total and no two bitboards share a bit.
\* Refuted by the code: the queens stand on e1/e8 and the kings on d1/d8.
StandardStartingPosition ==
    nmoves = 0 =>
        /\ white.pawns   = {Sq(f, 2) : f \in 1..8}
        /\ white.knights = {Sq(2, 1), Sq(7, 1)}
        /\ white.bishops = {Sq(3, 1), Sq(6, 1)}
        /\ white.rooks   = {Sq(1, 1), Sq(8, 1)}
        /\ white.queens  = {Sq(4, 1)}
        /\ white.king    = {Sq(5, 1)}
        /\ black.pawns   = {Sq(f, 7) : f \in 1..8}
        /\ black.knights = {Sq(2, 8), Sq(7, 8)}
        /\ black.bishops = {Sq(3, 8), Sq(6, 8)}
        /\ black.rooks   = {Sq(1, 8), Sq(8, 8)}
        /\ black.queens  = {Sq(4, 8)}
        /\ black.king    = {Sq(5, 8)}
        /\ Cardinality({<<p, i>> \in Piece \X (0..63) : i \in BitBoards(TheBoard)[p]}) = 32
        /\ \A i \in 0..63 : Cardinality(Holders(TheBoard, i)) <= 1

\* C8, the part the code keeps: 32 bits are set in the twelve bitboards of
\* Board::new() and no two bitboards share one.
StartingPositionCount ==
    nmoves = 0 =>
        /\ Cardinality({<<p, i>> \in Piece \X (0..63) : i \in BitBoards(TheBoard)[p]}) = 32
        /\ \A i \in 0..63 : Cardinality(Holders(TheBoard, i)) <= 1

\* C9: lerf_index_for returns Ok(rank_index * 8 + file_index) for every
\* text that is exactly one letter a-h in either case followed by one
\* digit 1-8, and InvalidSquareError for every other text.
\* Refuted by the code: an upper-case square panics, and a text that holds
\* a lower-case square among other characters is accepted.
LerfIndexForExact ==
    call.fn = "lerf_index_for" =>
        IF ValidSquareText(call.text)
        THEN call.ret = Ok(SquareIndex(call.text))
        ELSE call.ret = Err("InvalidSquareError")

\* C10: is_capture() is true exactly for Capture, EnPassant and the four
\* promotion-capture categories, and false for the other eight of the 14.
IsCaptureExact ==
    /\ Cardinality(MoveType) = 14
    /\ call.fn = "is_capture" =>
          (call.ret.val <=>
              call.mtype \in {"Capture", "EnPassant"} \cup PromoteCaptures)

\* C10, witness: is_capture() has answered true for EnPassant
IsCaptureCalled ==
    call.fn = "is_capture" /\ call.mtype = "EnPassant" /\ call.ret.val = TRUE

\* C11: file_index_of and file_for_index are mutual inverses over
\* a-h <-> 0-7, and both fail with InvalidFileError outside that range:
\* file_index_of for every character that is not one of a-h,
\* file_for_index for every index greater than 7.
\* Refuted by the code: file_index_of answers an upper-case A-H with its
\* index, and on a decimal digit its subtraction overflows, which panics
\* when overflow checks are on.
FileIndexInverse ==
    /\ call.fn = "file_index_of" =>
          IF call.text[1] \in FileClass
          THEN /\ call.ret.tag = "Ok"
               /\ call.ret.val \in 0..7
               /\ file_for_index(call.ret.val).tag = "Ok"
               /\ file_for_index(call.ret.val).val = call.text[1]
          ELSE call.ret = Err("InvalidFileError")
    /\ call.fn = "file_for_index" =>
          IF call.arg <= 7
          THEN /\ call.ret.tag = "Ok"
               /\ call.ret.val \in FileClass
               /\ file_index_of(call.ret.val, overflow_checks) = Ok(call.arg)
          ELSE call.ret.tag = "Err" /\ call.ret.err = "InvalidFileError"

\* C11, the part the code keeps: the two round trips over a-h <-> 0-7,
\* InvalidFileError for every index greater than 7, and no index for a
\* character that is none of a-h, A-H.
FileIndexRoundTrip ==
    /\ call.fn = "file_index_of" =>
          IF call.text[1] \in FileClass
          THEN /\ call.ret.tag = "Ok"
               /\ call.ret.val \in 0..7
               /\ file_for_index(call.ret.val).tag = "Ok"
               /\ file_for_index(call.ret.val).val = call.text[1]
          ELSE call.text[1] \notin FileClassNoCase => call.ret.tag # "Ok"
    /\ call.fn = "file_for_index" =>
          IF call.arg <= 7
          THEN /\ call.ret.tag = "Ok"
               /\ call.ret.val \in FileClass
               /\ file_index_of(call.ret.val, overflow_checks) = Ok(call.arg)
          ELSE call.ret.tag = "Err" /\ call.ret.err = "InvalidFileError"

\* the text-parsing entry points and the typed failure values
ParsingEntryPoints ==
    {"BitBoard_from", "get_square", "set_square", "lerf_index_for",
     "file_index_of", "Piece_try_from"}

TypedFailures == {"InvalidSquareError", "InvalidFileError", "InvalidPieceError"}

\* C12: no text-parsing entry point aborts on malformed input: for every
\* input text, single-square BitBoard construction, get_square, set_square,
\* the square-to-index conversion, file_index_of and the piece-glyph parse
\* each end in success or in a typed failure value returned to the caller;
\* none reaches a panic, and none yields an empty or wrong mask.
\* Refuted by the code: BitBoard::from and get_square unwrap the result of
\* lerf_index_for, which itself panics on an upper-case square, and
\* file_index_of overflows on a digit.
NoParseAborts ==
    call.fn \in ParsingEntryPoints =>
        /\ call.ret.tag \in {"Ok", "Err"}
        /\ call.ret.tag = "Err" => call.ret.err \in TypedFailures
        /\ (call.fn = "BitBoard_from" /\ call.ret.tag = "Ok") =>
              /\ ValidSquareText(call.text)
              /\ call.ret.val = {SquareIndex(call.text)}

\* C12, the part the code keeps: the piece-glyph parse never panics, and
\* set_square panics only where the square-to-index conversion does,
\* leaving the mailbox as it was unless it returns Ok(()).
ParseFailuresTyped ==
    /\ call.fn = "Piece_try_from" =>
          \/ call.ret.tag = "Ok"
          \/ call.ret.tag = "Err" /\ call.ret.err = "InvalidPieceError"
    /\ call.fn = "set_square" =>
          /\ call.ret.tag = lerf_index_for(call.text, overflow_checks).tag
          /\ call.ret.tag = "Err" => call.ret.err = "InvalidSquareError"
          /\ call.ret.tag # "Ok" => squares = _8x8Board_new
    /\ call.fn \in {"BitBoard_from", "get_square"} =>
          (call.ret.tag = "Ok") = (lerf_index_for(call.text, overflow_checks).tag = "Ok")

====
